---- MODULE Spec2Model ----
(***************************************************************************)
(* Gated link lifecycle of the GivaBit server: the request handlers of     *)
(* src/index.js over the store of src/database.js (PostgreSQL table        *)
(* GatedLinks) and the ledger client of src/blockchain.js.                 *)
(*                                                                         *)
(* Every request runs in a slot p of Procs.  A handler is cut at its       *)
(* `await`s: one action per stretch of code between two suspension points, *)
(* the effect of the awaited call included.  JSON values are strings       *)
(* ("true", "false", "undefined", ...); SQL NULL / JS null is NULL; a      *)
(* transaction hash is a positive number and NoTx is the absent one.       *)
(***************************************************************************)
EXTENDS Integers, FiniteSets, Sequences, TLC

\* ------------------------------------------------------------------ bounds
NumProcs == 2        \* requests in flight at the same time
MaxOps == 3          \* requests started in one behaviour

Procs == 1..NumProcs

NULL == "null"
UNDEF == "undefined"
NoTx == 0

\* ------------------------------------------------------------------ inputs
Urls == {"u1", "u2"}
IsActiveInputs == {"true", "false", "yes", UNDEF}
ForceInputs == {"true", UNDEF}
Codes == {"c1", "c2"}
\* The two draws of generateShortCode of one creation (lines 91-92): the
\* draws are independent and may repeat each other or an earlier draw.
CodePairs == Codes \X Codes
Hashes == {"h1", "h2"}
Platforms == {"X", "Instagram", "Facebook", "Telegram", "Discord"}
CreatorQueries == {"0xABC", "0xabc", "0xDEF", "abc"}

\* ------------------------------------------------------------------ pure helpers
\* keccak256 of the UTF-8 bytes: deterministic and collision free on Urls.
generateLinkHash(data) == CASE data = "u1" -> "h1"
                            [] data = "u2" -> "h2"
                            [] OTHER -> "h0"

\* String.prototype.toLowerCase on the addresses of the model.
toLowerCase(s) == CASE s = "0xABC" -> "0xabc"
                    [] s = "0xDEF" -> "0xdef"
                    [] OTHER -> s

\* JS truthiness of a request field: undefined and "" are falsy.
Truthy(x) == x \notin {UNDEF, NULL, ""}

\* typeof x === "boolean"
IsBoolean(x) == x \in {"true", "false"}

\* undefined query parameters reach PostgreSQL as NULL.
ToSql(x) == IF x = UNDEF THEN NULL ELSE x

\* res.json leaves out a key whose value is undefined: the field of the
\* answer stays what it is in NoResp.
ToJson(x) == IF x = UNDEF THEN NULL ELSE x

\* extractYoutubeVideoId(url) !== null: u2 is the video URL of the model.
extractYoutubeVideoId(url) == IF url = "u2" THEN "vid" ELSE NULL

VARIABLES
  rows,      \* committed rows of GatedLinks
  lock,      \* lock[h]: the slot whose open transaction has deleted row h, or 0
  chain,     \* chain[h]: the contract's gatedLinkInfo for linkId h
  nextTx,    \* the next transaction hash the ledger hands out
  started,   \* number of requests started so far
  pc,        \* pc[p]: where slot p's handler is suspended
  req,       \* req[p]: the request slot p is serving
  loc,       \* loc[p]: the handler's local variables
  resp,      \* resp[p]: the response sent, once pc[p] = "done"
  calls      \* calls[p]: which collaborators the request has used so far

vars == <<rows, lock, chain, nextTx, started, pc, req, loc, resp, calls>>

\* ------------------------------------------------------------------ records
\* ai_social_posts / generatedPosts: per platform "posts" (a non-empty list),
\* "empty" (the key with an empty list) or "absent" (no key); NullPosts is NULL.
NullPosts == [pl \in Platforms |-> NULL]

NoReq == [kind |-> "none", url |-> UNDEF, price |-> UNDEF, creator |-> UNDEF,
          title |-> UNDEF, description |-> UNDEF, hash |-> NULL,
          isActive |-> UNDEF, code |-> NULL, force |-> UNDEF]

NoLink == [original_url |-> NULL, link_hash |-> NULL, buy_short_code |-> NULL,
           access_short_code |-> NULL, title |-> NULL, description |-> NULL,
           creator_address |-> NULL, price_in_erc20 |-> NULL, tx_hash |-> NoTx,
           status_update_tx_hash |-> NoTx, is_active |-> TRUE,
           ai_social_posts |-> NullPosts]

NoExtracted == [title |-> UNDEF, description |-> UNDEF]

\* settledPlatformResults before Promise.allSettled has resolved.
NoSettled == [pl \in Platforms |-> "pending"]

NoLoc == [linkHash |-> NULL, buyShortCode |-> NULL, accessShortCode |-> NULL,
          txHash |-> NoTx, link |-> NoLink, extracted |-> NoExtracted,
          settled |-> NoSettled,
          generatedPosts |-> NullPosts, deleted |-> FALSE, verdict |-> "none"]

NoResp == [status |-> 0, error |-> NULL, linkId |-> NULL, buyShortCode |-> NULL,
           accessShortCode |-> NULL, transactionHash |-> NoTx, isActive |-> NULL,
           title |-> NULL, description |-> NULL, socialPosts |-> NullPosts,
           source |-> NULL, originalUrl |-> NULL, creatorAddress |-> NULL,
           priceInERC20 |-> NULL, links |-> {}]

Error(status, error) == [NoResp EXCEPT !.status = status, !.error = error]

NoChain == [exists |-> FALSE, isActive |-> FALSE, creator |-> NULL,
            priceInERC20 |-> NULL]

Init ==
  /\ rows = {}
  /\ lock = [h \in Hashes |-> 0]
  /\ chain = [h \in Hashes |-> NoChain]
  /\ nextTx = 1
  /\ started = 0
  /\ pc = [p \in Procs |-> "idle"]
  /\ req = [p \in Procs |-> NoReq]
  /\ loc = [p \in Procs |-> NoLoc]
  /\ resp = [p \in Procs |-> NoResp]
  /\ calls = [p \in Procs |-> {}]

\* ------------------------------------------------------------------ control
\* A request is taken by the lowest slot that serves none (the slots are
\* interchangeable).
Free(p) ==
  /\ pc[p] \in {"idle", "done"}
  /\ \A q \in Procs : q < p => pc[q] \notin {"idle", "done"}
  /\ started < MaxOps

\* The handler of slot p sends r and ends; the caller says what loc becomes.
Send(p, r) ==
  /\ pc' = [pc EXCEPT ![p] = "done"]
  /\ resp' = [resp EXCEPT ![p] = r]

\* The handler of slot p sends r and ends, and its locals are gone.
Respond(p, r) ==
  /\ Send(p, r)
  /\ loc' = [loc EXCEPT ![p] = NoLoc]

Goto(p, label) ==
  /\ pc' = [pc EXCEPT ![p] = label]
  /\ UNCHANGED resp

Use(p, what) == calls' = [calls EXCEPT ![p] = @ \cup what]

\* The free slot p takes the request r.
Begin(p, r) ==
  /\ started' = started + 1
  /\ req' = [req EXCEPT ![p] = r]

\* ------------------------------------------------------------------ store
getLinkByHash(linkHash) == {r \in rows : r.link_hash = linkHash}
getLinkByBuyShortCode(code) == {r \in rows : r.buy_short_code = code}
getLinkByAccessShortCode(code) == {r \in rows : r.access_short_code = code}

\* Mutant: link_hash is not declared UNIQUE.
UniqueViolation_CodesOnly(rec, old) ==
  \E r \in rows \ old :
     \/ r.buy_short_code = rec.buy_short_code
     \/ r.access_short_code = rec.access_short_code

\* Mutant: only link_hash is declared UNIQUE.
UniqueViolation_HashOnly(rec, old) ==
  \E r \in rows \ old : r.link_hash = rec.link_hash

\* The UNIQUE constraints of GatedLinks against the rows other than `old`.
UniqueViolation(rec, old) ==
  \E r \in rows \ old :
     \/ r.link_hash = rec.link_hash
     \/ r.buy_short_code = rec.buy_short_code
     \/ r.access_short_code = rec.access_short_code

\* Mutant: creator_address is inserted in the casing of the request.
storeGatedLinkRow_KeepsCase(linkData) ==
  [NoLink EXCEPT
     !.original_url = linkData.original_url,
     !.link_hash = linkData.link_hash,
     !.buy_short_code = linkData.buy_short_code,
     !.access_short_code = linkData.access_short_code,
     !.title = ToSql(linkData.title),
     !.creator_address = linkData.creator_address,
     !.price_in_erc20 = linkData.price_in_erc20,
     !.tx_hash = linkData.tx_hash,
     !.is_active = linkData.is_active,
     !.description = ToSql(linkData.description),
     !.ai_social_posts = NullPosts]

\* The row storeGatedLink inserts for linkData.
storeGatedLinkRow(linkData) ==
  [NoLink EXCEPT
     !.original_url = linkData.original_url,
     !.link_hash = linkData.link_hash,
     !.buy_short_code = linkData.buy_short_code,
     !.access_short_code = linkData.access_short_code,
     !.title = ToSql(linkData.title),
     !.creator_address = IF Truthy(linkData.creator_address)
                           THEN toLowerCase(linkData.creator_address) ELSE NULL,
     !.price_in_erc20 = linkData.price_in_erc20,
     !.tx_hash = linkData.tx_hash,
     !.is_active = linkData.is_active,
     !.description = ToSql(linkData.description),
     !.ai_social_posts = NullPosts]

\* Mutant: the UPDATE also resets the title.
updateLinkStatusRows_ClearsTitle(linkHash, isActive, statusUpdateTxHash) ==
  {IF r.link_hash = linkHash
     THEN [r EXCEPT !.is_active = isActive,
                    !.status_update_tx_hash = statusUpdateTxHash,
                    !.title = NULL]
     ELSE r : r \in rows}

\* Mutant: the UPDATE flips is_active instead of setting it.
updateLinkStatusRows_Toggle(linkHash, isActive, statusUpdateTxHash) ==
  {IF r.link_hash = linkHash
     THEN [r EXCEPT !.is_active = ~r.is_active,
                    !.status_update_tx_hash = statusUpdateTxHash]
     ELSE r : r \in rows}

\* UPDATE GatedLinks SET is_active, status_update_tx_hash WHERE link_hash.
updateLinkStatusRows(linkHash, isActive, statusUpdateTxHash) ==
  {IF r.link_hash = linkHash
     THEN [r EXCEPT !.is_active = isActive,
                    !.status_update_tx_hash = statusUpdateTxHash]
     ELSE r : r \in rows}

\* Mutant: the INSERT of the replace leaves the price column out.
replaceGatedLinkRow_DropsPrice(linkData) ==
  [linkData EXCEPT
     !.creator_address = IF Truthy(linkData.creator_address)
                           THEN toLowerCase(linkData.creator_address) ELSE NULL,
     !.price_in_erc20 = NULL]

\* The row replaceGatedLinkByHash inserts for linkData.
replaceGatedLinkRow(linkData) ==
  [linkData EXCEPT
     !.creator_address = IF Truthy(linkData.creator_address)
                           THEN toLowerCase(linkData.creator_address) ELSE NULL]

\* UPDATE GatedLinks SET ai_social_posts WHERE buy_short_code.
updateAISocialPostsRows(buyShortCode, aiSocialPosts) ==
  {IF r.buy_short_code = buyShortCode
     THEN [r EXCEPT !.ai_social_posts = aiSocialPosts]
     ELSE r : r \in rows}

\* Row locks.  A statement that meets a row deleted by an open transaction
\* waits for that transaction (READ COMMITTED): after its COMMIT the waiting
\* statement finds its row version dead and affects no row ("gone"); after
\* its ROLLBACK the statement goes on with the row ("retry").
Blocked(p) == pc[p] \in {"status_store_blocked", "meta_delete_blocked",
                         "social_store_blocked"}

WaitHash(p) == IF req[p].kind = "status" THEN req[p].hash
               ELSE loc[p].link.link_hash

\* loc after slot q's transaction on row h ended with `verdict` for the
\* statements waiting for it; q's own locals become mine.
Release(q, h, verdict, mine) ==
  [p \in Procs |->
     IF p = q THEN mine
     ELSE IF verdict # "none" /\ Blocked(p) /\ WaitHash(p) = h
                /\ loc[p].verdict # "gone"
            THEN [loc[p] EXCEPT !.verdict = verdict]
            ELSE loc[p]]

\* ------------------------------------------------------------------ ledger
\* The receipt tx.wait() resolves to (src/blockchain.js lines 78-80 and
\* 102-104).  The module runs on ethers version 6 only (ethers.JsonRpcProvider
\* at line 55, ethers.keccak256 and ethers.toUtf8Bytes in src/index.js lines
\* 53-54), whose receipts name the transaction's hash `hash`.
TransactionReceipt(txHash) == [hash |-> txHash, status |-> 1]

\* txReceipt.transactionHash (src/index.js lines 104 and 274): undefined on
\* a receipt that has no such property, and stored as NULL.
transactionHash(txReceipt) ==
  IF "transactionHash" \in DOMAIN txReceipt THEN txReceipt.transactionHash
  ELSE NoTx

\* A confirmed transaction: the handler gets the receipt of a fresh
\* transaction and reads txReceipt.transactionHash from it.
Confirm(p) ==
  /\ loc' = [loc EXCEPT ![p].txHash = transactionHash(TransactionReceipt(nextTx))]
  /\ nextTx' = nextTx + 1
  /\ Use(p, {"ledger_ok"})

\* ------------------------------------------------------------------ POST /create-gated-link
\* The optional description of the body: the bodies tried carry one exactly
\* when they carry a title.
DescriptionWith(title) == IF title = UNDEF THEN UNDEF ELSE "D0"

CreateRequest(url, title, price, creator) ==
  [NoReq EXCEPT !.kind = "create", !.url = url, !.title = title,
                !.description = DescriptionWith(title),
                !.price = price, !.creator = creator]

\* The request bodies tried: a page and a video without title, the page
\* again with a title, another price and another creator, and one body for
\* each required field left out.
CreateInputs ==
  {CreateRequest(url, UNDEF, "100", "0xABC") : url \in Urls}
    \cup {CreateRequest("u1", "T0", "200", "0xDEF"),
          CreateRequest(UNDEF, UNDEF, "100", "0xABC"),
          CreateRequest("u1", UNDEF, UNDEF, "0xABC"),
          CreateRequest("u1", UNDEF, "100", UNDEF)}

\* Mutant: the price is not checked.
CreateValid_NoPrice(r) == Truthy(r.url) /\ Truthy(r.creator)

\* The check of line 82: url, priceInERC20 and creatorAddress are given.
CreateValid(r) == Truthy(r.url) /\ Truthy(r.price) /\ Truthy(r.creator)

\* Lines 68-98: validation, hash, short codes, and the ledger call is sent.
CreateGatedLink(p) ==
  /\ Free(p)
  /\ \E r \in CreateInputs, <<buy, access>> \in CodePairs :
       /\ Begin(p, r)
       /\ IF ~CreateValid(r)
            THEN /\ Respond(p, Error(400,
                      "Missing required fields: url, priceInERC20, creatorAddress"))
                 /\ calls' = [calls EXCEPT ![p] = {}]
            ELSE /\ Goto(p, "create_ledger")
                 /\ loc' = [loc EXCEPT ![p] =
                      [NoLoc EXCEPT !.linkHash = generateLinkHash(r.url),
                                    !.buyShortCode = buy,
                                    !.accessShortCode = access]]
                 /\ calls' = [calls EXCEPT ![p] = {"ledger_call"}]
       /\ UNCHANGED <<rows, lock, chain, nextTx>>

\* The linkData of lines 116-132.
\* Mutant: the two short codes change places in the record to store.
CreateLinkData_SwapsCodes(p) ==
  [original_url |-> req[p].url, link_hash |-> loc[p].linkHash,
   buy_short_code |-> loc[p].accessShortCode,
   access_short_code |-> loc[p].buyShortCode, title |-> req[p].title,
   description |-> req[p].description,
   creator_address |-> req[p].creator, price_in_erc20 |-> req[p].price,
   tx_hash |-> loc[p].txHash, is_active |-> TRUE]

\* The linkData of lines 119-137.
CreateLinkData(p) ==
  [original_url |-> req[p].url, link_hash |-> loc[p].linkHash,
   buy_short_code |-> loc[p].buyShortCode,
   access_short_code |-> loc[p].accessShortCode, title |-> req[p].title,
   description |-> req[p].description,
   creator_address |-> req[p].creator, price_in_erc20 |-> req[p].price,
   tx_hash |-> loc[p].txHash, is_active |-> TRUE]

\* The 201 of lines 143-161.
CreateOk(p) ==
  [NoResp EXCEPT !.status = 201, !.linkId = loc[p].linkHash,
                 !.buyShortCode = loc[p].buyShortCode,
                 !.accessShortCode = loc[p].accessShortCode,
                 !.title = ToJson(req[p].title),
                 !.description = ToJson(req[p].description),
                 !.originalUrl = req[p].url,
                 !.creatorAddress = req[p].creator,
                 !.priceInERC20 = req[p].price,
                 !.transactionHash = loc[p].txHash]

\* The contract's createLink(_linkId, _creator, _priceInERC20,
\* _initialIsActive), whose code is not part of the server's sources: the
\* ledger as the specification describes it, where creation is idempotent on
\* linkHash and a creation submitted again meets the ledger's existing link,
\* which stays as it is.
createLink(linkId, creator, priceInERC20, initialIsActive) ==
  IF chain[linkId].exists
    THEN chain
    ELSE [chain EXCEPT ![linkId] =
            [exists |-> TRUE, isActive |-> initialIsActive,
             creator |-> creator, priceInERC20 |-> priceInERC20]]

\* createLinkOnChain resolves: the transaction createLink(linkHash,
\* creatorAddress, priceInERC20, true) of lines 97-103 is mined.
CreateLedgerConfirm(p) ==
  /\ pc[p] = "create_ledger"
  /\ chain' = createLink(loc[p].linkHash, req[p].creator, req[p].price, TRUE)
  /\ Confirm(p)
  /\ Goto(p, "create_store")
  /\ UNCHANGED <<rows, lock, started, req>>

\* Mutant: the record is stored although the ledger call failed.
CreateLedgerThrow_StoresAnyway(p) ==
  /\ pc[p] = "create_ledger"
  /\ rows' = rows \cup {storeGatedLinkRow(CreateLinkData(p))}
  /\ Respond(p, Error(500, "Smart contract interaction failed"))
  /\ UNCHANGED <<lock, chain, nextTx, started, req, calls>>

\* createLinkOnChain throws (no contract, revert, RPC error): lines 106-112.
CreateLedgerThrow(p) ==
  /\ pc[p] = "create_ledger"
  /\ Respond(p, Error(500, "Smart contract interaction failed"))
  /\ UNCHANGED <<rows, lock, chain, nextTx, started, req, calls>>

\* db.storeGatedLink succeeds and the handler answers 201: lines 114-161.
CreateStore(p) ==
  /\ pc[p] = "create_store"
  /\ ~UniqueViolation(storeGatedLinkRow(CreateLinkData(p)), {})
  /\ rows' = rows \cup {storeGatedLinkRow(CreateLinkData(p))}
  /\ Use(p, {"store_write"})
  /\ Respond(p, CreateOk(p))
  /\ UNCHANGED <<lock, chain, nextTx, started, req>>

\* Mutant: the store failure is reported with the ledger failure's message.
CreateStoreThrow_SameError(p) ==
  /\ pc[p] = "create_store"
  /\ Respond(p, Error(500, "Smart contract interaction failed"))
  /\ UNCHANGED <<rows, lock, chain, nextTx, started, req, calls>>

\* db.storeGatedLink throws, on a UNIQUE violation or because the database
\* is down, and the catch of lines 133-139 answers at once: no second attempt.
CreateStoreThrow(p) ==
  /\ pc[p] = "create_store"
  /\ \E cause \in {"unique_violation", "store_error"} :
       /\ cause = "unique_violation"
            => UniqueViolation(storeGatedLinkRow(CreateLinkData(p)), {})
       /\ Use(p, {cause})
  /\ Respond(p, Error(500, "Failed to store link details in database"))
  /\ UNCHANGED <<rows, lock, chain, nextTx, started, req>>

\* ------------------------------------------------------------------ PATCH /links/:link_hash/status
StatusRequest(linkHash, isActive) ==
  [NoReq EXCEPT !.kind = "status", !.hash = linkHash, !.isActive = isActive]

\* Mutant: the existence check is left out.
LinkExists_Always(linkHash) == TRUE

\* The existence check of lines 262-267.
LinkExists(linkHash) == getLinkByHash(linkHash) # {}

\* Lines 250-273: validation, db.getLinkByHash, and the ledger call is sent.
\* dbUp = FALSE is the SELECT failing (outer catch, lines 308-313).
PatchLinkStatus(p) ==
  /\ Free(p)
  /\ \E linkHash \in Hashes, isActive \in IsActiveInputs, dbUp \in BOOLEAN :
       /\ Begin(p, StatusRequest(linkHash, isActive))
       /\ IF ~IsBoolean(isActive)
            THEN /\ Respond(p, Error(400,
                      "Invalid request body: isActive (boolean) is required."))
                 /\ calls' = [calls EXCEPT ![p] = {}]
            ELSE IF ~dbUp
            THEN /\ Respond(p, Error(500, "Failed to update link status"))
                 /\ calls' = [calls EXCEPT ![p] = {"store_read", "store_error"}]
            ELSE IF ~LinkExists(linkHash)
            THEN /\ Respond(p, Error(404, "Link not found with the provided hash."))
                 /\ calls' = [calls EXCEPT ![p] = {"store_read"}]
            ELSE /\ Goto(p, "status_ledger")
                 /\ UNCHANGED loc
                 /\ calls' = [calls EXCEPT ![p] = {"store_read", "ledger_call"}]
       /\ UNCHANGED <<rows, lock, chain, nextTx>>

\* setLinkActivityOnChain resolves: the transaction is mined.
StatusLedgerConfirm(p) ==
  /\ pc[p] = "status_ledger"
  /\ chain' = [chain EXCEPT ![req[p].hash].isActive = (req[p].isActive = "true")]
  /\ Confirm(p)
  /\ Goto(p, "status_store")
  /\ UNCHANGED <<rows, lock, started, req>>

\* Mutant: the catch block does not return, and the handler goes on to the
\* store with the default hash.
StatusLedgerThrow_FallsThrough(p) ==
  /\ pc[p] = "status_ledger"
  /\ Goto(p, "status_store")
  /\ UNCHANGED <<rows, lock, chain, nextTx, started, req, loc, calls>>

\* Mutant: the store was updated before the ledger answered.
StatusLedgerThrow_Optimistic(p) ==
  /\ pc[p] = "status_ledger"
  /\ rows' = updateLinkStatusRows(req[p].hash, req[p].isActive = "true", NoTx)
  /\ Respond(p, Error(500,
        "Smart contract interaction failed for status update"))
  /\ UNCHANGED <<lock, chain, nextTx, started, req, calls>>

\* setLinkActivityOnChain throws: lines 276-285.
StatusLedgerThrow(p) ==
  /\ pc[p] = "status_ledger"
  /\ Respond(p, Error(500,
        "Smart contract interaction failed for status update"))
  /\ UNCHANGED <<rows, lock, chain, nextTx, started, req, calls>>

\* The 200 of lines 302-307; the rowCount of updateLinkStatus is not read.
StatusOk(p) ==
  [NoResp EXCEPT !.status = 200, !.linkId = req[p].hash,
                 !.isActive = req[p].isActive,
                 !.transactionHash = loc[p].txHash]

\* db.updateLinkStatus runs its UPDATE (lines 287-307), or has to wait for
\* the transaction that deleted the row.
StatusStore(p) ==
  /\ pc[p] = "status_store"
  /\ IF lock[req[p].hash] # 0
       THEN /\ Goto(p, "status_store_blocked")
            /\ UNCHANGED <<rows, calls, loc>>
       ELSE /\ rows' = updateLinkStatusRows(req[p].hash, req[p].isActive = "true",
                                            loc[p].txHash)
            /\ Use(p, IF getLinkByHash(req[p].hash) # {}
                        THEN {"store_write"} ELSE {})
            /\ Respond(p, StatusOk(p))
  /\ UNCHANGED <<lock, chain, nextTx, started, req>>

\* The transaction the UPDATE waited for has ended: the UPDATE matches no
\* row (and the handler answers 200 all the same), or it goes on.
StatusStoreResume(p) ==
  /\ pc[p] = "status_store_blocked"
  /\ loc[p].verdict # "none"
  /\ IF loc[p].verdict = "gone"
       THEN Respond(p, StatusOk(p))
       ELSE /\ Goto(p, "status_store")
            /\ loc' = [loc EXCEPT ![p].verdict = "none"]
  /\ UNCHANGED <<rows, lock, chain, nextTx, started, req, calls>>

\* db.updateLinkStatus throws: lines 290-300.
StatusStoreThrow(p) ==
  /\ pc[p] = "status_store"
  /\ Respond(p, Error(500, "Failed to update link status in database"))
  /\ UNCHANGED <<rows, lock, chain, nextTx, started, req, calls>>

\* ------------------------------------------------------------------ metadata producers
\* What a call of getYoutubeVideoDetails meets: the API answers a snippet
\* ("ok"), a snippet whose title is the empty string ("untitled"), no
\* YOUTUBE_API_KEY is configured ("no_key"), or the call fails ("fail").
YoutubeOutcomes == {"ok", "untitled", "no_key", "fail"}

\* What a call of getGenericPageMetadata meets: the page is read with its
\* title and description tags ("ok") or without a description tag
\* ("no_description"), or the fetch fails ("fail").  browser.close() may
\* reject on top of each: see MetadataFetchThrow.
PageOutcomes == {"ok", "no_description", "fail"}

\* getYoutubeVideoDetails: the snippet as the API gave it (lines 413-414),
\* the record of lines 382-390 without API key, or the placeholder of the
\* catch block (lines 423-434).
getYoutubeVideoDetails(url, outcome) ==
  CASE outcome = "ok" -> [title |-> "T_video", description |-> "D_video"]
    [] outcome = "untitled" -> [title |-> "", description |-> "D_video"]
    [] outcome = "no_key" ->
         [title |-> "YouTube Video (ID)",
          description |-> "API key not configured to fetch full details."]
    [] OTHER -> [title |-> "YouTube Video (ID)",
                 description |-> "Could not fetch details"]

\* getGenericPageMetadata when it returns: the page's tags (lines 470-494,
\* the title never empty, the description null without a tag), or the
\* placeholder of lines 505-517.
getGenericPageMetadata(url, outcome) ==
  CASE outcome = "ok" -> [title |-> "T_page", description |-> "D_page"]
    [] outcome = "no_description" -> [title |-> "T_page", description |-> NULL]
    [] OTHER -> [title |-> "Web Page at",
                 description |-> "Could not fetch details"]

\* ------------------------------------------------------------------ GET /metadata/:buy_short_code
MetadataRequest(code, force) ==
  [NoReq EXCEPT !.kind = "metadata", !.code = code, !.force = force]

\* The response of lines 539-553 and 588-604 for the record `link`.
MetadataOk(link) ==
  [NoResp EXCEPT !.status = 200, !.linkId = link.link_hash,
                 !.title = link.title, !.description = link.description,
                 !.isActive = IF link.is_active THEN "true" ELSE "false",
                 !.originalUrl = link.original_url,
                 !.creatorAddress = link.creator_address,
                 !.priceInERC20 = link.price_in_erc20,
                 !.buyShortCode = link.buy_short_code]

\* Mutant: a title given at creation does not count as enrichment.
ServeCached_FetchedTitleOnly(force, link) ==
  ~(force = "true") /\ link.title # NULL /\ link.title # "T0"

\* Mutant: the stored title is never taken as a valid cache.
ServeCached_Never(force, link) == FALSE

\* Mutant: the force parameter is not looked at.
ServeCached_IgnoresForce(force, link) == link.title # NULL

\* The test of line 535, with forceRefresh of line 523.
ServeCached(force, link) == ~(force = "true") /\ link.title # NULL

\* Lines 521-571: lookup, the cached answer, or the producer is called.
GetMetadata(p) ==
  /\ Free(p)
  /\ \E code \in Codes, force \in ForceInputs, dbUp \in BOOLEAN :
       /\ Begin(p, MetadataRequest(code, force))
       /\ IF ~dbUp
            THEN /\ Respond(p, Error(500, "Failed to extract metadata"))
                 /\ calls' = [calls EXCEPT ![p] = {"store_read", "store_error"}]
            ELSE IF getLinkByBuyShortCode(code) = {}
            THEN /\ Respond(p, Error(404,
                      "Link not found with the provided buy_short_code."))
                 /\ calls' = [calls EXCEPT ![p] = {"store_read"}]
            ELSE \E link \in getLinkByBuyShortCode(code) :
                   IF ServeCached(force, link)
                     THEN /\ Respond(p, MetadataOk(link))
                          /\ calls' = [calls EXCEPT ![p] = {"store_read"}]
                     ELSE /\ Goto(p, "meta_fetch")
                          /\ loc' = [loc EXCEPT ![p].link = link]
                          /\ calls' = [calls EXCEPT ![p] = {"store_read", "producer"}]
       /\ UNCHANGED <<rows, lock, chain, nextTx>>

\* Mutant: a description already stored is kept, as the title is.
UpdatedLinkData_KeepsStoredDescription(link, extractedData) ==
  [link EXCEPT
     !.title = IF Truthy(extractedData.title) THEN extractedData.title
               ELSE link.title,
     !.description = IF link.description # NULL THEN link.description
                     ELSE ToSql(extractedData.description)]

\* updatedLinkData of lines 573-583.
UpdatedLinkData(link, extractedData) ==
  [link EXCEPT
     !.title = IF Truthy(extractedData.title) THEN extractedData.title
               ELSE link.title,
     !.description = ToSql(extractedData.description)]

\* The producer returns and replaceGatedLinkByHash is called.
MetadataFetched(p) ==
  /\ pc[p] = "meta_fetch"
  /\ \E outcome \in YoutubeOutcomes \cup PageOutcomes :
       /\ outcome \in IF extractYoutubeVideoId(loc[p].link.original_url) # NULL
                        THEN YoutubeOutcomes ELSE PageOutcomes
       /\ loc' = [loc EXCEPT ![p].extracted =
                    IF extractYoutubeVideoId(loc[p].link.original_url) # NULL
                      THEN getYoutubeVideoDetails(loc[p].link.original_url, outcome)
                      ELSE getGenericPageMetadata(loc[p].link.original_url, outcome)]
  /\ Goto(p, "meta_delete")
  /\ UNCHANGED <<rows, lock, chain, nextTx, started, req, calls>>

\* getGenericPageMetadata rejects: browser.close() of line 503, or of line
\* 511 in the catch block, rejects, and the handler's catch (lines 605-610)
\* answers 500 before any replace.
MetadataFetchThrow(p) ==
  /\ pc[p] = "meta_fetch"
  /\ extractYoutubeVideoId(loc[p].link.original_url) = NULL
  /\ Respond(p, Error(500, "Failed to extract metadata"))
  /\ UNCHANGED <<rows, lock, chain, nextTx, started, req, calls>>

\* replaceGatedLinkByHash, BEGIN and DELETE (lines 302-307): the row is
\* deleted in the open transaction, or the DELETE has to wait.
ReplaceDelete(p) ==
  /\ pc[p] = "meta_delete"
  /\ IF lock[loc[p].link.link_hash] # 0
       THEN /\ Goto(p, "meta_delete_blocked")
            /\ UNCHANGED <<lock, loc>>
       ELSE /\ Goto(p, "meta_insert")
            /\ IF getLinkByHash(loc[p].link.link_hash) # {}
                 THEN /\ lock' = [lock EXCEPT ![loc[p].link.link_hash] = p]
                      /\ loc' = [loc EXCEPT ![p].deleted = TRUE]
                 ELSE UNCHANGED <<lock, loc>>
  /\ UNCHANGED <<rows, chain, nextTx, started, req, calls>>

\* The transaction the DELETE waited for has ended: the DELETE matches no
\* row, or it goes on.
ReplaceDeleteResume(p) ==
  /\ pc[p] = "meta_delete_blocked"
  /\ loc[p].verdict # "none"
  /\ loc' = [loc EXCEPT ![p].verdict = "none"]
  /\ IF loc[p].verdict = "gone"
       THEN Goto(p, "meta_insert")
       ELSE Goto(p, "meta_delete")
  /\ UNCHANGED <<rows, lock, chain, nextTx, started, req, calls>>

\* replaceGatedLinkByHash, INSERT and COMMIT (lines 339-341), and the 200 of
\* lines 588-604.
ReplaceInsertCommit(p) ==
  /\ pc[p] = "meta_insert"
  /\ LET data == UpdatedLinkData(loc[p].link, loc[p].extracted)
         h == loc[p].link.link_hash
         old == IF loc[p].deleted THEN getLinkByHash(h) ELSE {}
     IN /\ ~UniqueViolation(replaceGatedLinkRow(data), old)
        /\ rows' = (rows \ old) \cup {replaceGatedLinkRow(data)}
        /\ lock' = IF loc[p].deleted THEN [lock EXCEPT ![h] = 0] ELSE lock
        /\ loc' = Release(p, h, IF loc[p].deleted THEN "gone" ELSE "none", NoLoc)
        /\ Send(p, MetadataOk(data))
  /\ Use(p, {"store_write"})
  /\ UNCHANGED <<chain, nextTx, started, req>>

\* Mutant: the DELETE ran outside a transaction, so a failure after it
\* leaves the row deleted.
ReplaceRollback_DeleteStays(p) ==
  /\ pc[p] \in {"meta_delete", "meta_insert"}
  /\ LET h == loc[p].link.link_hash
     IN /\ rows' = IF loc[p].deleted THEN rows \ getLinkByHash(h) ELSE rows
        /\ lock' = IF loc[p].deleted THEN [lock EXCEPT ![h] = 0] ELSE lock
        /\ loc' = Release(p, h, IF loc[p].deleted THEN "gone" ELSE "none", NoLoc)
  /\ Send(p, Error(500, "Failed to extract metadata"))
  /\ UNCHANGED <<chain, nextTx, started, req, calls>>

\* replaceGatedLinkByHash throws (UNIQUE violation of the INSERT, or the
\* database fails): ROLLBACK (line 343) and the 500 of lines 605-610.
ReplaceRollback(p) ==
  /\ pc[p] \in {"meta_delete", "meta_insert"}
  /\ LET h == loc[p].link.link_hash
     IN /\ lock' = IF loc[p].deleted THEN [lock EXCEPT ![h] = 0] ELSE lock
        /\ loc' = Release(p, h, IF loc[p].deleted THEN "retry" ELSE "none", NoLoc)
  /\ Send(p, Error(500, "Failed to extract metadata"))
  /\ UNCHANGED <<rows, chain, nextTx, started, req, calls>>

\* ------------------------------------------------------------------ GET /social/:buy_short_code
\* What the five generation promises settle to: "posts" (fulfilled with a
\* JSON array of strings), "empty" (fulfilled, the text was no such array)
\* or "rejected".
AllSettle(outcome) == [pl \in Platforms |-> outcome]

SocialOutcomes ==
  { AllSettle("posts"), AllSettle("empty"), AllSettle("rejected"),
    [pl \in Platforms |-> IF pl \in {"X", "Instagram"} THEN "rejected"
                           ELSE IF pl = "Facebook" THEN "empty" ELSE "posts"] }

\* Mutant: a rejected platform gets a key with an empty list.
ReducePosts_KeepsRejected(settled) ==
  [pl \in Platforms |-> IF settled[pl] = "rejected" THEN "empty" ELSE settled[pl]]

\* The reduce of lines 837-849: a key for every fulfilled platform.
ReducePosts(settled) ==
  [pl \in Platforms |-> IF settled[pl] = "rejected" THEN "absent" ELSE settled[pl]]

\* Mutant: only the platforms with a non-empty list count.
Keys_WithContent(posts) == {pl \in Platforms : posts[pl] = "posts"}

\* Object.keys(generatedPosts)
Keys(posts) == {pl \in Platforms : posts[pl] \in {"posts", "empty"}}

SocialRequest(code, force) ==
  [NoReq EXCEPT !.kind = "social", !.code = code, !.force = force]

SocialOk(link, posts, source) ==
  [NoResp EXCEPT !.status = 200, !.linkId = link.link_hash,
                 !.buyShortCode = link.buy_short_code,
                 !.socialPosts = posts, !.source = source]

\* Mutant: the stored column is served unless force is given, posts in it
\* or not.
ServeCachedPosts_IgnoresPosts(force, link) == ~(force = "true")

\* The test of line 691, with forceRefresh of line 680.
ServeCachedPosts(force, link) ==
  ~(force = "true") /\ link.ai_social_posts # NullPosts

\* Lines 677-731: lookup, the cached answer, the configuration check
\* (geminiApiKey is process.env.GEMINI_API_KEY as read at line 711), or the
\* five generation calls are started.
GetSocial(p) ==
  /\ Free(p)
  /\ \E code \in Codes, force \in ForceInputs, dbUp \in BOOLEAN,
        geminiApiKey \in {"key", UNDEF} :
       /\ Begin(p, SocialRequest(code, force))
       /\ IF ~dbUp
            THEN /\ Respond(p, Error(500, "Failed to generate or retrieve social posts"))
                 /\ calls' = [calls EXCEPT ![p] = {"store_read", "store_error"}]
            ELSE IF getLinkByBuyShortCode(code) = {}
            THEN /\ Respond(p, Error(404,
                      "Link not found with the provided buy_short_code."))
                 /\ calls' = [calls EXCEPT ![p] = {"store_read"}]
            ELSE \E link \in getLinkByBuyShortCode(code) :
                   IF ServeCachedPosts(force, link)
                     THEN /\ Respond(p, SocialOk(link, link.ai_social_posts, "cache"))
                          /\ calls' = [calls EXCEPT ![p] = {"store_read"}]
                     ELSE IF ~Truthy(geminiApiKey)
                     THEN /\ Respond(p, Error(500, "AI service not configured."))
                          /\ calls' = [calls EXCEPT ![p] = {"store_read"}]
                     ELSE /\ Goto(p, "social_generate")
                          /\ loc' = [loc EXCEPT ![p] = [NoLoc EXCEPT !.link = link]]
                          /\ calls' = [calls EXCEPT ![p] = {"store_read", "generator"}]
       /\ UNCHANGED <<rows, lock, chain, nextTx>>

\* The generation call of one platform settles (lines 731-831): fulfilled
\* with posts, fulfilled with an empty list, or rejected.  The calls settle
\* one per step and in any order, other handlers run in between, and the
\* handler still waits in Promise.allSettled.  The results are those that
\* lead to one of SocialOutcomes.
TaskSettles(p) ==
  /\ pc[p] = "social_generate"
  /\ \E all \in SocialOutcomes :
       /\ \A x \in Platforms : loc[p].settled[x] \in {"pending", all[x]}
       /\ \E pl \in Platforms :
            /\ loc[p].settled[pl] = "pending"
            /\ loc' = [loc EXCEPT ![p].settled[pl] = all[pl]]
  /\ UNCHANGED <<rows, lock, chain, nextTx, started, pc, req, resp, calls>>

\* Mutant: the handler resumes as soon as one generation call has settled.
AllSettled_Any(p) == \E pl \in Platforms : loc[p].settled[pl] # "pending"

\* Promise.allSettled resolves (line 833): no generation call is pending.
AllSettled(p) == \A pl \in Platforms : loc[p].settled[pl] # "pending"

\* Lines 833-864: the posts of the settled calls are aggregated, and either
\* nothing was generated (the 500 of lines 851-856, the handler returns and
\* its locals are gone) or db.updateAISocialPosts is called next.
Aggregate(p, settled) ==
  /\ pc[p] = "social_generate"
  /\ IF Keys(ReducePosts(settled)) = {}
       THEN Respond(p, Error(500, "Failed to generate any social posts from AI."))
       ELSE /\ Goto(p, "social_store")
            /\ loc' = [loc EXCEPT ![p].generatedPosts = ReducePosts(settled)]
  /\ UNCHANGED <<rows, lock, chain, nextTx, started, req, calls>>

\* The handler resumes once Promise.allSettled has resolved (line 833).
SocialAggregate(p) ==
  /\ AllSettled(p)
  /\ Aggregate(p, loc[p].settled)

\* db.updateAISocialPosts runs its UPDATE (lines 878-899), or has to wait for
\* the transaction that deleted the row.
SocialStore(p) ==
  /\ pc[p] = "social_store"
  /\ IF lock[loc[p].link.link_hash] # 0
       THEN /\ Goto(p, "social_store_blocked")
            /\ UNCHANGED <<rows, calls, loc>>
       ELSE /\ rows' = updateAISocialPostsRows(req[p].code, loc[p].generatedPosts)
            /\ IF getLinkByBuyShortCode(req[p].code) # {}
                 THEN /\ Use(p, {"store_write"})
                      /\ Respond(p, SocialOk(loc[p].link, loc[p].generatedPosts,
                                             "generated"))
                 ELSE /\ UNCHANGED calls
                      /\ Respond(p, Error(500,
                            "Failed to store generated social posts."))
  /\ UNCHANGED <<lock, chain, nextTx, started, req>>

\* The transaction the UPDATE waited for has ended: no row is left to update
\* (lines 883-891), or the UPDATE goes on.
SocialStoreResume(p) ==
  /\ pc[p] = "social_store_blocked"
  /\ loc[p].verdict # "none"
  /\ IF loc[p].verdict = "gone"
       THEN Respond(p, Error(500, "Failed to store generated social posts."))
       ELSE /\ Goto(p, "social_store")
            /\ loc' = [loc EXCEPT ![p].verdict = "none"]
  /\ UNCHANGED <<rows, lock, chain, nextTx, started, req, calls>>

\* db.updateAISocialPosts throws: the outer catch of lines 900-906.
SocialStoreThrow(p) ==
  /\ pc[p] = "social_store"
  /\ Respond(p, Error(500, "Failed to generate or retrieve social posts"))
  /\ UNCHANGED <<rows, lock, chain, nextTx, started, req, calls>>

\* ------------------------------------------------------------------ GET /content/:access_short_code
ContentRequest(code) == [NoReq EXCEPT !.kind = "content", !.code = code]

\* res.redirect(302, link.original_url)
Redirect(link) == [NoResp EXCEPT !.status = 302, !.originalUrl = link.original_url]

\* Mutant: the stored is_active is not looked at.
Inactive_Never(link) == FALSE

\* The test !link.is_active of lines 181 and 212.
Inactive(link) == ~link.is_active

\* Lines 171-199: lookup, then 404, 403 for an inactive link, or the redirect.
GetContent(p) ==
  /\ Free(p)
  /\ \E code \in Codes, dbUp \in BOOLEAN :
       /\ Begin(p, ContentRequest(code))
       /\ IF ~dbUp
            THEN /\ Respond(p, Error(500, "Failed to retrieve content"))
                 /\ calls' = [calls EXCEPT ![p] = {"store_read", "store_error"}]
            ELSE /\ calls' = [calls EXCEPT ![p] = {"store_read"}]
                 /\ IF getLinkByAccessShortCode(code) = {}
                      THEN Respond(p, Error(404, "Content not found"))
                      ELSE \E link \in getLinkByAccessShortCode(code) :
                             IF Inactive(link)
                               THEN Respond(p, Error(403,
                                      "This link is currently inactive."))
                               ELSE Respond(p, Redirect(link))
       /\ UNCHANGED <<rows, lock, chain, nextTx>>

\* ------------------------------------------------------------------ GET /buy/:buy_short_code
BuyRequest(code) == [NoReq EXCEPT !.kind = "buy", !.code = code]

\* The 200 of lines 225-236.
BuyOk(link) ==
  [NoResp EXCEPT !.status = 200, !.linkId = link.link_hash,
                 !.buyShortCode = link.buy_short_code, !.title = link.title,
                 !.creatorAddress = link.creator_address,
                 !.priceInERC20 = link.price_in_erc20,
                 !.isActive = IF link.is_active THEN "true" ELSE "false"]

\* Lines 202-247: lookup, then 404, 403 for an inactive link, or the details.
GetBuy(p) ==
  /\ Free(p)
  /\ \E code \in Codes, dbUp \in BOOLEAN :
       /\ Begin(p, BuyRequest(code))
       /\ IF ~dbUp
            THEN /\ Respond(p, Error(500, "Failed to retrieve purchase link details"))
                 /\ calls' = [calls EXCEPT ![p] = {"store_read", "store_error"}]
            ELSE /\ calls' = [calls EXCEPT ![p] = {"store_read"}]
                 /\ IF getLinkByBuyShortCode(code) = {}
                      THEN Respond(p, Error(404, "Purchase link not found."))
                      ELSE \E link \in getLinkByBuyShortCode(code) :
                             IF Inactive(link)
                               THEN Respond(p, Error(403,
                                      "This link is currently inactive and cannot be purchased."))
                               ELSE Respond(p, BuyOk(link))
       /\ UNCHANGED <<rows, lock, chain, nextTx>>

\* ------------------------------------------------------------------ GET /links/creator/:creatorAddress
CreatorRequest(creatorAddress) ==
  [NoReq EXCEPT !.kind = "creator", !.creator = creatorAddress]

\* creatorAddress.startsWith("0x") on the addresses of the model.
startsWith0x(s) == s \in {"0xABC", "0xabc", "0xDEF", "0xdef"}

\* SELECT ... WHERE creator_address = lower-cased creatorAddress.
getLinksByCreator(creatorAddress) ==
  {r \in rows : r.creator_address = toLowerCase(creatorAddress)}

\* Lines 317-371: validation, normalisation, lookup, the list of links.
GetLinksByCreator(p) ==
  /\ Free(p)
  /\ \E creatorAddress \in CreatorQueries, dbUp \in BOOLEAN :
       /\ Begin(p, CreatorRequest(creatorAddress))
       /\ IF ~startsWith0x(creatorAddress)
            THEN /\ Respond(p, Error(400, "Invalid creatorAddress format."))
                 /\ calls' = [calls EXCEPT ![p] = {}]
            ELSE IF ~dbUp
            THEN /\ Respond(p, Error(500, "Failed to retrieve links for creator"))
                 /\ calls' = [calls EXCEPT ![p] = {"store_read", "store_error"}]
            ELSE /\ Respond(p, [NoResp EXCEPT !.status = 200,
                        !.links = {r.link_hash :
                                     r \in getLinksByCreator(toLowerCase(creatorAddress))}])
                 /\ calls' = [calls EXCEPT ![p] = {"store_read"}]
       /\ UNCHANGED <<rows, lock, chain, nextTx>>

\* ------------------------------------------------------------------ specification
Next ==
  \E p \in Procs :
    \/ CreateGatedLink(p)
    \/ CreateLedgerConfirm(p)
    \/ CreateLedgerThrow(p)
    \/ CreateStore(p)
    \/ CreateStoreThrow(p)
    \/ PatchLinkStatus(p)
    \/ StatusLedgerConfirm(p)
    \/ StatusLedgerThrow(p)
    \/ StatusStore(p)
    \/ StatusStoreResume(p)
    \/ StatusStoreThrow(p)
    \/ GetMetadata(p)
    \/ MetadataFetched(p)
    \/ MetadataFetchThrow(p)
    \/ ReplaceDelete(p)
    \/ ReplaceDeleteResume(p)
    \/ ReplaceInsertCommit(p)
    \/ ReplaceRollback(p)
    \/ GetSocial(p)
    \/ TaskSettles(p)
    \/ SocialAggregate(p)
    \/ SocialStore(p)
    \/ SocialStoreResume(p)
    \/ SocialStoreThrow(p)
    \/ GetContent(p)
    \/ GetBuy(p)
    \/ GetLinksByCreator(p)

Spec == Init /\ [][Next]_vars

\* The workflows that write the ledger and the columns of GatedLinks other
\* than ai_social_posts: creation, status transition and metadata refresh.
\* The handlers left out read the store and write at most ai_social_posts.
LifecycleNext ==
  \E p \in Procs :
    \/ CreateGatedLink(p)
    \/ CreateLedgerConfirm(p)
    \/ CreateLedgerThrow(p)
    \/ CreateStore(p)
    \/ CreateStoreThrow(p)
    \/ PatchLinkStatus(p)
    \/ StatusLedgerConfirm(p)
    \/ StatusLedgerThrow(p)
    \/ StatusStore(p)
    \/ StatusStoreResume(p)
    \/ StatusStoreThrow(p)
    \/ GetMetadata(p)
    \/ MetadataFetched(p)
    \/ MetadataFetchThrow(p)
    \/ ReplaceDelete(p)
    \/ ReplaceDeleteResume(p)
    \/ ReplaceInsertCommit(p)
    \/ ReplaceRollback(p)

LifecycleSpec == Init /\ [][LifecycleNext]_vars

\* The workflows that write ai_social_posts: creation (NULL), social copy
\* (the UPDATE) and metadata refresh (the replace writes back what it read).
\* The status transition and the readers never touch the column.
EnrichmentNext ==
  \E p \in Procs :
    \/ CreateGatedLink(p)
    \/ CreateLedgerConfirm(p)
    \/ CreateLedgerThrow(p)
    \/ CreateStore(p)
    \/ CreateStoreThrow(p)
    \/ GetMetadata(p)
    \/ MetadataFetched(p)
    \/ MetadataFetchThrow(p)
    \/ ReplaceDelete(p)
    \/ ReplaceDeleteResume(p)
    \/ ReplaceInsertCommit(p)
    \/ ReplaceRollback(p)
    \/ GetSocial(p)
    \/ TaskSettles(p)
    \/ SocialAggregate(p)
    \/ SocialStore(p)
    \/ SocialStoreResume(p)
    \/ SocialStoreThrow(p)

EnrichmentSpec == Init /\ [][EnrichmentNext]_vars

\* The readers with every workflow that writes what they read: the social
\* copy is left out, no reader returns ai_social_posts.
AccessNext ==
  \E p \in Procs :
    \/ CreateGatedLink(p)
    \/ CreateLedgerConfirm(p)
    \/ CreateLedgerThrow(p)
    \/ CreateStore(p)
    \/ CreateStoreThrow(p)
    \/ PatchLinkStatus(p)
    \/ StatusLedgerConfirm(p)
    \/ StatusLedgerThrow(p)
    \/ StatusStore(p)
    \/ StatusStoreResume(p)
    \/ StatusStoreThrow(p)
    \/ GetMetadata(p)
    \/ MetadataFetched(p)
    \/ MetadataFetchThrow(p)
    \/ ReplaceDelete(p)
    \/ ReplaceDeleteResume(p)
    \/ ReplaceInsertCommit(p)
    \/ ReplaceRollback(p)
    \/ GetContent(p)
    \/ GetBuy(p)
    \/ GetLinksByCreator(p)

AccessSpec == Init /\ [][AccessNext]_vars

\* The steps a handler takes on its own once the store, the page fetch or
\* the generator has answered: the event loop resumes the handler.  The
\* steps not listed are the arrival of a request and the settling of
\* tx.wait() (src/blockchain.js lines 78 and 102), which depend on the
\* client and on the ledger.
Continue(p) ==
  \/ CreateStore(p) \/ CreateStoreThrow(p)
  \/ StatusStore(p) \/ StatusStoreResume(p) \/ StatusStoreThrow(p)
  \/ MetadataFetched(p) \/ MetadataFetchThrow(p)
  \/ ReplaceDelete(p) \/ ReplaceDeleteResume(p)
  \/ ReplaceInsertCommit(p) \/ ReplaceRollback(p)
  \/ TaskSettles(p) \/ SocialAggregate(p) \/ SocialStore(p) \/ SocialStoreResume(p)
  \/ SocialStoreThrow(p)

\* The ledger-writing workflows with the scheduling of the event loop: a
\* handler that can go on does.
FairSpec == LifecycleSpec /\ \A p \in Procs : WF_vars(Continue(p))

\* ------------------------------------------------------------------ properties
LedgerFailureErrors == {"Smart contract interaction failed",
                        "Smart contract interaction failed for status update"}

StoreFailureErrors == {"Failed to store link details in database",
                       "Failed to update link status in database"}

\* The slot that takes the request of a step that starts one.
Starts(p) == Free(p) /\ started' # started

\* Slot p's handler sends its response in this step, after an await.
Answers(p) == pc[p] \notin {"idle", "done"} /\ pc'[p] = "done"

Finished(p, kind) == pc[p] = "done" /\ req[p].kind = kind

\* C1 (as claimed): a creation that waits for its ledger createLink call has
\* written nothing to the store; when the call throws, the step that ends
\* the wait reports the ledger failure, ends the workflow and leaves the set
\* of stored records exactly as it was; and the wait does end, so that a
\* call that is never confirmed is reported as a failure too.
C1_LedgerFailureNoStoreWrite ==
  /\ [](\A p \in Procs :
          pc[p] = "create_ledger" => "store_write" \notin calls[p])
  /\ [][\A p \in Procs :
          (pc[p] = "create_ledger" /\ pc'[p] # "create_ledger"
             /\ "ledger_ok" \notin calls'[p])
          => /\ rows' = rows
             /\ pc'[p] = "done"
             /\ resp'[p].status = 500
             /\ resp'[p].error = "Smart contract interaction failed"
             /\ "store_write" \notin calls'[p]]_vars
  /\ \A p \in Procs :
       pc[p] = "create_ledger" ~> pc[p] \in {"create_store", "done"}

\* C2: a creation or a status transition that has written the store made
\* its own ledger call before and had it confirmed; no such workflow has
\* written the store without one.
C2_LedgerBeforeStore ==
  \A p \in Procs :
    (req[p].kind \in {"create", "status"} /\ "store_write" \in calls[p])
    => /\ "ledger_call" \in calls[p]
       /\ "ledger_ok" \in calls[p]

\* C2 witness: a status transition and a creation have both written the
\* store.
C2_Witness ==
  \E p, q \in Procs :
    /\ Finished(p, "status") /\ "store_write" \in calls[p]
    /\ Finished(q, "create") /\ "store_write" \in calls[q]

\* Request r looks up a key the store does not hold.
LookupMisses(r) ==
  \/ r.kind = "status" /\ IsBoolean(r.isActive) /\ getLinkByHash(r.hash) = {}
  \/ r.kind \in {"metadata", "social"} /\ getLinkByBuyShortCode(r.code) = {}

\* C3: a status transition, a metadata request or a social-copy request
\* whose lookup finds no record answers 404 at once, having used nothing but
\* that one store read: ledger, producers and stored records are untouched.
C3_NotFoundNoSideEffect ==
  [][\A p \in Procs :
       (Starts(p) /\ LookupMisses(req'[p]) /\ "store_error" \notin calls'[p])
       => /\ pc'[p] = "done"
          /\ resp'[p].status = 404
          /\ calls'[p] = {"store_read"}
          /\ UNCHANGED <<rows, lock, chain, nextTx>>]_vars

\* C3 witness: a status transition for an unknown linkHash answered 404
\* while the store holds another record.
C3_Witness ==
  \E p \in Procs :
    /\ Finished(p, "status")
    /\ resp[p].status = 404
    /\ rows # {}
    /\ getLinkByHash(req[p].hash) = {}

\* C4: when the ledger setActivity call of a status transition does not
\* confirm, the step that ends the wait reports the ledger failure, ends the
\* workflow and leaves every stored record as it was.
C4_StatusLedgerFailureKeepsRecord ==
  [][\A p \in Procs :
       (pc[p] = "status_ledger" /\ pc'[p] # "status_ledger"
          /\ "ledger_ok" \notin calls'[p])
       => /\ rows' = rows
          /\ pc'[p] = "done"
          /\ resp'[p].status = 500
          /\ resp'[p].error =
               "Smart contract interaction failed for status update"
          /\ "store_write" \notin calls'[p]]_vars

\* C4 witness: a status transition to inactive ended with the ledger
\* failure and the record is still active.
C4_Witness ==
  \E p \in Procs :
    /\ Finished(p, "status")
    /\ req[p].isActive = "false"
    /\ resp[p].error = "Smart contract interaction failed for status update"
    /\ \E r \in getLinkByHash(req[p].hash) :
         r.is_active /\ r.status_update_tx_hash = NoTx

\* C5 (as claimed): whenever a status transition answers 200, the record of
\* its linkHash holds the requested isActive and the transaction hash
\* reported to the caller.
C5_SuccessMeansRowUpdated ==
  [][\A p \in Procs :
       (Answers(p) /\ req[p].kind = "status" /\ resp'[p].status = 200)
       => \E r \in rows' :
            /\ r.link_hash = req[p].hash
            /\ r.is_active = (req[p].isActive = "true")
            /\ r.status_update_tx_hash = resp'[p].transactionHash]_vars

\* C6 (as claimed): once status transitions that ran concurrently on one
\* linkHash have all answered 200, the stored isActive is the value the
\* ledger confirmed last.
C6_ConvergesToLastConfirmed ==
  \A h \in Hashes :
    (\A p \in Procs :
       Finished(p, "status") /\ req[p].hash = h /\ resp[p].status = 200)
    => \A r \in getLinkByHash(h) : r.is_active = chain[h].isActive

\* C7 (as claimed): once a metadata refresh and a status transition that ran
\* concurrently on one link have both answered 200, the record holds the
\* isActive and the transaction hash of the status transition.
C7_RefreshKeepsStatusTransition ==
  \A p, q \in Procs :
    ( /\ Finished(p, "status") /\ resp[p].status = 200
      /\ Finished(q, "metadata") /\ resp[q].status = 200
      /\ "store_write" \in calls[q]
      /\ resp[q].linkId = req[p].hash )
    => \A r \in getLinkByHash(req[p].hash) :
         /\ r.is_active = (req[p].isActive = "true")
         /\ r.status_update_tx_hash = resp[p].transactionHash

\* Request r fails validation.
InvalidInput(r) ==
  \/ r.kind = "create"
       /\ (~Truthy(r.url) \/ ~Truthy(r.price) \/ ~Truthy(r.creator))
  \/ r.kind = "status" /\ ~IsBoolean(r.isActive)

\* C8: a creation without url, price or creatorAddress and a status
\* transition whose isActive is no boolean answer 400 at once: no store
\* read, no ledger call, no store write.
C8_InvalidInputNoSideEffect ==
  \A p \in Procs :
    InvalidInput(req[p])
    => /\ pc[p] = "done"
       /\ resp[p].status = 400
       /\ calls[p] = {}

\* C8 witness: a creation without a price and a status transition with a
\* non-boolean isActive were both rejected.
C8_Witness ==
  \E p, q \in Procs :
    /\ Finished(p, "create") /\ ~Truthy(req[p].price) /\ resp[p].status = 400
    /\ Finished(q, "status") /\ req[q].isActive = "yes" /\ resp[q].status = 400

\* C9: a creation or status transition that failed after its ledger call
\* was confirmed reports a store failure, one that failed because the ledger
\* call was not confirmed reports a ledger failure and has not touched the
\* store, and the two reports differ.
C9_StoreFailureDistinguishable ==
  /\ LedgerFailureErrors \cap StoreFailureErrors = {}
  /\ \A p \in Procs :
       (pc[p] = "done" /\ req[p].kind \in {"create", "status"})
       => /\ resp[p].error \in StoreFailureErrors
               <=> (resp[p].status = 500 /\ "ledger_ok" \in calls[p])
          /\ resp[p].error \in LedgerFailureErrors
               <=> ("ledger_call" \in calls[p] /\ "ledger_ok" \notin calls[p])
          /\ resp[p].error \in LedgerFailureErrors
               => "store_write" \notin calls[p]

\* C9 witness: one request ended with a store failure and another with a
\* ledger failure.
C9_Witness ==
  \E p, q \in Procs :
    /\ pc[p] = "done" /\ resp[p].error \in StoreFailureErrors
    /\ pc[q] = "done" /\ resp[q].error \in LedgerFailureErrors

\* C10: no two stored records share a linkHash, a buyShortCode or an
\* accessShortCode, and creations that answered 201 returned pairwise
\* different buyShortCodes and pairwise different accessShortCodes.
C10_UniqueKeys ==
  /\ \A r1, r2 \in rows :
       r1 # r2 => /\ r1.link_hash # r2.link_hash
                  /\ r1.buy_short_code # r2.buy_short_code
                  /\ r1.access_short_code # r2.access_short_code
  /\ \A p, q \in Procs :
       (p # q /\ Finished(p, "create") /\ Finished(q, "create")
          /\ resp[p].status = 201 /\ resp[q].status = 201)
       => /\ resp[p].buyShortCode # resp[q].buyShortCode
          /\ resp[p].accessShortCode # resp[q].accessShortCode

\* C10 witness: two creations that ran at the same time both answered 201
\* and the store holds their two records.
C10_Witness ==
  /\ Cardinality(rows) = 2
  /\ \A p \in Procs : Finished(p, "create") /\ resp[p].status = 201

\* C11 (as claimed): a store insert of a creation that is rejected only for
\* a short code already taken does not end the creation in failure: the
\* creation goes on with regenerated codes.
C11_CollisionIsRetried ==
  [][\A p \in Procs :
       (pc[p] = "create_store" /\ "unique_violation" \in calls'[p]
          /\ getLinkByHash(loc[p].linkHash) = {})
       => ~(pc'[p] = "done" /\ resp'[p].status = 500)]_vars

\* C12: a status transition to the value the record already holds, from an
\* earlier transition or from its creation, is not rejected by the handler,
\* and when its UPDATE has run and it answers 200 the stored isActive is
\* still that value, with the transaction hash of this transition.
C12_SetActivityIdempotent ==
  [][\A p \in Procs :
       /\ ( /\ Starts(p) /\ req'[p].kind = "status"
             /\ \E r \in getLinkByHash(req'[p].hash) :
                  /\ IsBoolean(req'[p].isActive)
                  /\ r.is_active = (req'[p].isActive = "true")
             /\ "store_error" \notin calls'[p] )
          => pc'[p] = "status_ledger"
       /\ ( /\ pc[p] = "status_store" /\ pc'[p] = "done"
             /\ resp'[p].status = 200
             /\ \E r \in getLinkByHash(req[p].hash) :
                  r.is_active = (req[p].isActive = "true") )
          => /\ getLinkByHash(req[p].hash)' # {}
             /\ \A r \in getLinkByHash(req[p].hash)' :
                  /\ r.is_active = (req[p].isActive = "true")
                  /\ r.status_update_tx_hash = resp'[p].transactionHash]_vars

\* C12 witness: two transitions of one record to inactive have both run
\* their UPDATE and answered 200, and the record is inactive with the
\* transaction hash they report.
C12_Witness ==
  \E p, q \in Procs :
    /\ Finished(p, "status") /\ Finished(q, "status")
    /\ req[p].hash = req[q].hash
    /\ req[p].isActive = "false" /\ req[q].isActive = "false"
    /\ resp[p].status = 200 /\ resp[q].status = 200
    /\ p # q
    /\ "store_write" \in calls[p] /\ "store_write" \in calls[q]
    /\ \E r \in getLinkByHash(req[q].hash) :
         ~r.is_active /\ r.status_update_tx_hash = resp[q].transactionHash

\* C13: a creation for a URL whose linkHash is already stored changes
\* nothing in the store, whatever price, creator or title it carries: the
\* existing record stays as it is and no second record of that linkHash
\* appears; no step of any creation alters or removes a stored record.
C13_CreateIdempotentOnLinkHash ==
  [][\A p \in Procs :
       (pc[p] \in {"create_ledger", "create_store"} /\ pc'[p] # pc[p])
       => /\ rows \subseteq rows'
          /\ getLinkByHash(loc[p].linkHash) # {} => rows' = rows
          /\ Cardinality({r \in rows' : r.link_hash = loc[p].linkHash}) <= 1]_vars

\* C13 witness: a creation for a stored URL, submitted with another title,
\* was refused by the store and the stored record kept its title.
C13_Witness ==
  \E p \in Procs :
    /\ Finished(p, "create")
    /\ "unique_violation" \in calls[p]
    /\ resp[p].status = 500
    /\ \E r \in getLinkByHash(generateLinkHash(req[p].url)) :
         /\ r.original_url = req[p].url
         /\ r.title # ToSql(req[p].title)
         /\ r.price_in_erc20 # req[p].price
         /\ r.creator_address # toLowerCase(req[p].creator)

\* The non-empty titles a producer can return.
ProducedTitles ==
  {t \in {getYoutubeVideoDetails(u, o).title : u \in Urls, o \in YoutubeOutcomes}
          \cup {getGenericPageMetadata(u, o).title : u \in Urls, o \in PageOutcomes} :
     Truthy(t)}

\* C14: a metadata request without force for a record whose stored title is
\* not null is answered at once with the stored record, having used nothing
\* but the store read: no producer call and no store write.
C14_CachedEnrichmentServedAsIs ==
  [][\A p \in Procs :
       \A link \in getLinkByBuyShortCode(req'[p].code) :
         ( /\ Starts(p) /\ req'[p].kind = "metadata"
           /\ req'[p].force # "true" /\ link.title # NULL
           /\ "store_error" \notin calls'[p] )
         => /\ pc'[p] = "done"
            /\ resp'[p] = MetadataOk(link)
            /\ calls'[p] = {"store_read"}
            /\ UNCHANGED <<rows, lock, chain, nextTx>>]_vars

\* C14 witness: a request without force was answered from the store with a
\* title that an earlier request had fetched.
C14_Witness ==
  \E p \in Procs :
    /\ Finished(p, "metadata") /\ req[p].force # "true"
    /\ resp[p].status = 200 /\ calls[p] = {"store_read"}
    /\ resp[p].title \in ProducedTitles
    /\ \E r \in getLinkByBuyShortCode(req[p].code) : r.title = resp[p].title

\* C15: a metadata request with force=true for an existing record calls the
\* producer, whatever the stored title is, and does so once: a handler
\* enters the producer call only on taking its request; and when it answers
\* 200 the answer is what the replace has just written to the store.
C15_ForcedRefreshCallsProducerOnce ==
  [][\A p \in Procs :
       /\ ( /\ Starts(p) /\ req'[p].kind = "metadata" /\ req'[p].force = "true"
             /\ getLinkByBuyShortCode(req'[p].code) # {}
             /\ "store_error" \notin calls'[p] )
          => /\ pc'[p] = "meta_fetch"
             /\ calls'[p] = {"store_read", "producer"}
       /\ (pc'[p] = "meta_fetch" /\ pc[p] # "meta_fetch") => Starts(p)
       /\ ( /\ Answers(p) /\ req[p].kind = "metadata" /\ req[p].force = "true"
             /\ resp'[p].status = 200 )
          => /\ pc[p] = "meta_insert"
             /\ "store_write" \in calls'[p]
             /\ resp'[p].title \in ProducedTitles \cup {loc[p].link.title}
             /\ resp'[p].description = ToSql(loc[p].extracted.description)
             /\ \E r \in rows' :
                  /\ r.link_hash = resp'[p].linkId
                  /\ r.buy_short_code = req[p].code
                  /\ r.title = resp'[p].title
                  /\ r.description = resp'[p].description]_vars

\* C15 witness: a forced request has called the producer and answered 200,
\* and the record holds the fetched title.
C15_Witness ==
  \E p \in Procs :
    /\ Finished(p, "metadata") /\ req[p].force = "true"
    /\ resp[p].status = 200
    /\ {"producer", "store_write"} \subseteq calls[p]
    /\ \E r \in getLinkByBuyShortCode(req[p].code) :
         r.title = resp[p].title /\ r.title \in ProducedTitles

\* C16 (as claimed): a metadata request without force that called the
\* producer and answered 200 leaves a non-null title in the store, no step
\* makes a stored title null again, and a request without force that finds
\* a non-null title calls no producer: of two such requests in a row, at
\* most the first calls the producer.
C16_SecondCallServedFromStore ==
  [][/\ \A p \in Procs :
          ( /\ Answers(p) /\ req[p].kind = "metadata" /\ req[p].force # "true"
            /\ resp'[p].status = 200 /\ "producer" \in calls'[p] )
          => /\ getLinkByBuyShortCode(req[p].code)' # {}
             /\ \A r \in getLinkByBuyShortCode(req[p].code)' : r.title # NULL
     /\ \A r \in rows :
          r.title # NULL => \A r2 \in getLinkByHash(r.link_hash)' : r2.title # NULL
     /\ \A p \in Procs :
          ( /\ Starts(p) /\ req'[p].kind = "metadata" /\ req'[p].force # "true"
            /\ \E r \in getLinkByBuyShortCode(req'[p].code) : r.title # NULL )
          => "producer" \notin calls'[p] /\ pc'[p] = "done"]_vars

PlaceholderTitles == {getYoutubeVideoDetails(u, "fail").title : u \in Urls}
                       \cup {getGenericPageMetadata(u, "fail").title : u \in Urls}

\* C17 (as claimed): the producer call of a metadata request never ends
\* the request: the handler always goes on to the replace, with a
\* placeholder record that has a title when the fetch failed; and when the
\* replace of a placeholder commits, the placeholder is what the store
\* holds and what the 200 carries.
C17_ProducerFailureIsDegradedSuccess ==
  [][\A p \in Procs :
       /\ (pc[p] = "meta_fetch" /\ pc'[p] # "meta_fetch")
          => /\ pc'[p] = "meta_delete"
             /\ loc'[p].extracted.description = "Could not fetch details"
                  => /\ Truthy(loc'[p].extracted.title)
                     /\ loc'[p].extracted.title \in PlaceholderTitles
       /\ ( /\ pc[p] = "meta_insert" /\ pc'[p] = "done"
             /\ loc[p].extracted.title \in PlaceholderTitles
             /\ "store_write" \in calls'[p] )
          => /\ resp'[p].status = 200
             /\ resp'[p].title = loc[p].extracted.title
             /\ \E r \in rows' :
                  /\ r.link_hash = loc[p].link.link_hash
                  /\ r.title = loc[p].extracted.title]_vars

\* The fields an enrichment replace is to carry forward.
CarriedForward(r) ==
  <<r.link_hash, r.original_url, r.buy_short_code, r.access_short_code,
    r.creator_address, r.price_in_erc20, r.tx_hash, r.status_update_tx_hash>>

Enrichment(r) == <<r.title, r.description, r.ai_social_posts>>

\* C19 (as claimed): a step that changes an enrichment field of a stored
\* record, aiSocialPosts included, is the commit of a replace transaction
\* (delete and reinsert of the whole row).
C19_EnrichmentWrittenByReplaceOnly ==
  [][\A r \in rows : \A r2 \in rows' :
       (r2.link_hash = r.link_hash /\ Enrichment(r2) # Enrichment(r))
       => \E p \in Procs : pc[p] = "meta_insert" /\ pc'[p] = "done"]_vars

\* C20: a stored record stays stored: after every step the store still
\* holds a record with its linkHash and its two short codes, so that no
\* lookup by any of the three keys misses it; every stored record has all
\* three; and a record whose replace is in progress is still in the store.
C20_RecordStaysVisible ==
  /\ [](\A r \in rows :
          /\ r.link_hash # NULL /\ r.buy_short_code # NULL
          /\ r.access_short_code # NULL
          /\ r \in getLinkByHash(r.link_hash)
          /\ r \in getLinkByBuyShortCode(r.buy_short_code)
          /\ r \in getLinkByAccessShortCode(r.access_short_code))
  /\ [](\A h \in Hashes : lock[h] # 0 => getLinkByHash(h) # {})
  /\ [][\A r \in rows :
          \E r2 \in rows' :
            /\ r2.link_hash = r.link_hash
            /\ r2.buy_short_code = r.buy_short_code
            /\ r2.access_short_code = r.access_short_code
            /\ r2.original_url = r.original_url]_vars

\* C20 witness: a replace that had deleted the row failed and was rolled
\* back while a status UPDATE waited for it, and the record is in the store.
C20_Witness ==
  \E p, q \in Procs :
    /\ Finished(p, "metadata") /\ resp[p].status = 500
    /\ "producer" \in calls[p]
    /\ pc[q] = "status_store_blocked" /\ loc[q].verdict = "retry"
    /\ getLinkByHash(req[q].hash) # {}
    /\ getLinkByBuyShortCode(req[p].code) = getLinkByHash(req[q].hash)

\* The platforms whose generation call was fulfilled (did not reject).
Fulfilled(settled) == {pl \in Platforms : settled[pl] # "rejected"}

\* C21: when some but not all of the five platform calls fail, the handler
\* goes on to the store with a key for exactly the platforms whose call did
\* not fail; and a generated 200 answers with exactly the aggregated posts,
\* which are then the stored ai_social_posts of the record.
C21_PartialFailureIsolated ==
  [][\A p \in Procs :
       /\ ( /\ pc[p] = "social_generate" /\ pc'[p] # "social_generate"
            /\ Fulfilled(loc[p].settled) \notin {{}, Platforms} )
          => /\ pc'[p] = "social_store"
             /\ loc'[p].settled = loc[p].settled
             /\ Keys(loc'[p].generatedPosts) = Fulfilled(loc[p].settled)
       /\ ( pc[p] = "social_store" /\ pc'[p] = "done" /\ resp'[p].status = 200 )
          => /\ resp'[p].socialPosts = loc[p].generatedPosts
             /\ Keys(resp'[p].socialPosts) = Fulfilled(loc[p].settled)
             /\ \E r \in rows' : /\ r.buy_short_code = req[p].code
                                 /\ r.ai_social_posts = resp'[p].socialPosts
  ]_vars

C21_Witness ==
  \E p \in Procs : \E r \in rows :
    /\ pc[p] = "done" /\ req[p].kind = "social"
    /\ resp[p].status = 200 /\ resp[p].source = "generated"
    /\ Keys(resp[p].socialPosts) = {"Facebook", "Telegram", "Discord"}
    /\ r.buy_short_code = req[p].code
    /\ r.ai_social_posts = resp[p].socialPosts

\* C22: the generation answers "Failed to generate any social posts from AI."
\* exactly when every platform call was rejected, and that answer comes with
\* no store write: the rows, ai_social_posts included, are as before.
C22_AllProducersFailedIffAllRejected ==
  [][\A p \in Procs :
       ( pc[p] = "social_generate" /\ pc'[p] # "social_generate" )
         => /\ ( /\ pc'[p] = "done"
                 /\ resp'[p].error = "Failed to generate any social posts from AI." )
               <=> Fulfilled(loc[p].settled) = {}
            /\ pc'[p] = "done"
                 => /\ rows' = rows
                    /\ "store_write" \notin calls'[p]
  ]_vars

C22_Witness ==
  \E p \in Procs : \E r \in rows :
    /\ pc[p] = "done" /\ req[p].kind = "social"
    /\ resp[p].error = "Failed to generate any social posts from AI."
    /\ "generator" \in calls[p] /\ "store_write" \notin calls[p]
    /\ loc[p] = NoLoc
    /\ r.buy_short_code = req[p].code
    /\ r.ai_social_posts # NullPosts

\* C23: every stored creator_address is lower case, whatever the request's
\* casing and after any replace; and the list of links of a creator is
\* exactly the records whose stored creator_address is the lower-cased
\* query address.
C23_CreatorCaseFolded ==
  /\ [](\A r \in rows : /\ r.creator_address # NULL
                         /\ r.creator_address = toLowerCase(r.creator_address))
  /\ [][\A p \in Procs :
          ( Starts(p) /\ req'[p].kind = "creator" /\ resp'[p].status = 200 )
            => resp'[p].links =
                 {r.link_hash : r \in {x \in rows :
                     x.creator_address = toLowerCase(req'[p].creator)}}
     ]_vars

C23_Witness ==
  \E p \in Procs :
    /\ pc[p] = "done" /\ req[p].kind = "creator" /\ req[p].creator = "0xABC"
    /\ resp[p].status = 200
    /\ resp[p].links = {"h1", "h2"}
    /\ \A r \in rows : r.creator_address = "0xabc"

\* The request of slot p is answered in this step, be it the step that
\* started it or a later one.
Replies(p) == pc'[p] = "done" /\ (Starts(p) \/ Answers(p))

\* A finished successful creation in slot q and a finished successful
\* GET /metadata in slot p on the buy short code that creation returned.
CreatedThenRead(q, p) ==
  /\ pc[q] = "done" /\ req[q].kind = "create" /\ resp[q].status = 201
  /\ pc[p] = "done" /\ req[p].kind = "metadata" /\ resp[p].status = 200
  /\ req[p].code = resp[q].buyShortCode

\* C24 as stated: the record GET /metadata returns for a created link has
\* originalUrl, linkHash, buyShortCode, creatorAddress and price exactly
\* equal to the creation request's and the creation response's.
C24_ImmutableFieldsExactlyMatch ==
  \A q \in Procs : \A p \in Procs :
    CreatedThenRead(q, p)
      => /\ resp[p].originalUrl = req[q].url
         /\ resp[p].linkId = resp[q].linkId
         /\ resp[p].buyShortCode = resp[q].buyShortCode
         /\ resp[p].priceInERC20 = req[q].price
         /\ resp[p].creatorAddress = req[q].creator
         /\ resp[p].creatorAddress = resp[q].creatorAddress

\* C24, amended: originalUrl, linkHash, buyShortCode and price of the record
\* GET /metadata returns equal the creation request's and response's, and
\* its creatorAddress is the lower-cased creatorAddress of the request.
\* In states: the record of a creation answered 201 holds the request's
\* fields for as long as that answer is on record, the answer of a metadata
\* 200 shows these fields of the stored record of its code, and a creation
\* and a read of its buy short code side by side agree.
C24_ImmutableFieldsMatchUpToCase ==
  /\ \A q \in Procs : \A p \in Procs :
       CreatedThenRead(q, p)
         => /\ resp[p].originalUrl = req[q].url
            /\ resp[p].originalUrl = resp[q].originalUrl
            /\ resp[p].linkId = generateLinkHash(req[q].url)
            /\ resp[p].linkId = resp[q].linkId
            /\ resp[p].buyShortCode = resp[q].buyShortCode
            /\ resp[p].priceInERC20 = req[q].price
            /\ resp[p].priceInERC20 = resp[q].priceInERC20
            /\ resp[p].creatorAddress = toLowerCase(req[q].creator)
            /\ resp[p].creatorAddress = toLowerCase(resp[q].creatorAddress)
  /\ \A p \in Procs :
       (pc[p] = "done" /\ req[p].kind = "create" /\ resp[p].status = 201)
         => \E r \in rows :
              /\ r.link_hash = generateLinkHash(req[p].url)
              /\ r.link_hash = resp[p].linkId
              /\ r.original_url = req[p].url
              /\ r.original_url = resp[p].originalUrl
              /\ r.buy_short_code = resp[p].buyShortCode
              /\ r.price_in_erc20 = req[p].price
              /\ r.price_in_erc20 = resp[p].priceInERC20
              /\ r.creator_address = toLowerCase(req[p].creator)
              /\ r.creator_address = toLowerCase(resp[p].creatorAddress)
  /\ \A p \in Procs :
       (pc[p] = "done" /\ req[p].kind = "metadata" /\ resp[p].status = 200)
         => \E r \in rows :
              /\ r.buy_short_code = req[p].code
              /\ resp[p].buyShortCode = r.buy_short_code
              /\ resp[p].linkId = r.link_hash
              /\ resp[p].originalUrl = r.original_url
              /\ resp[p].priceInERC20 = r.price_in_erc20
              /\ resp[p].creatorAddress = r.creator_address

\* C24 witness: a creation with a mixed-case creatorAddress and a read of
\* its buy short code are both on record.
C24_Witness ==
  \E q \in Procs : \E p \in Procs :
    /\ CreatedThenRead(q, p)
    /\ req[q].creator = "0xABC"
    /\ resp[q].creatorAddress = "0xABC"
    /\ resp[p].creatorAddress = "0xabc"
    /\ resp[p].originalUrl = req[q].url
    /\ resp[p].priceInERC20 = req[q].price

\* The handler of slot p awaits tx.wait() of a creation or a status
\* transition.
AwaitingLedger(p) == pc[p] \in {"create_ledger", "status_ledger"}

\* C26 (as claimed): a creation or status transition that waits for the
\* ledger's confirmation is eventually answered, whether or not the ledger
\* ever confirms.
C26_LedgerWaitTerminates ==
  \A p \in Procs : AwaitingLedger(p) ~> pc[p] = "done"

\* C27: a content request by access short code is redirected to the
\* record's original_url, and a purchase request by buy short code gets the
\* record's details, exactly when a record with that code is stored with
\* is_active true; a stored inactive record gives 403 and no record 404
\* (the store answering the lookup).
C27_AccessGatedByStoredIsActive ==
  [][\A p \in Procs :
       /\ ( Starts(p) /\ req'[p].kind = "content" /\ "store_error" \notin calls'[p] )
          => LET found == {r \in rows : r.access_short_code = req'[p].code}
             IN  /\ resp'[p].status \in {302, 403, 404}
                 /\ resp'[p].status = 302
                      <=> \E r \in found : r.is_active
                 /\ resp'[p].status = 302
                      => \E r \in found : resp'[p].originalUrl = r.original_url
                 /\ resp'[p].status = 403
                      <=> \E r \in found : ~r.is_active
                 /\ resp'[p].status = 404 <=> found = {}
       /\ ( Starts(p) /\ req'[p].kind = "buy" /\ "store_error" \notin calls'[p] )
          => LET found == {r \in rows : r.buy_short_code = req'[p].code}
             IN  /\ resp'[p].status \in {200, 403, 404}
                 /\ resp'[p].status = 200
                      <=> \E r \in found : r.is_active
                 /\ resp'[p].status = 200
                      => \E r \in found : /\ resp'[p].linkId = r.link_hash
                                           /\ resp'[p].priceInERC20 = r.price_in_erc20
                                           /\ resp'[p].creatorAddress = r.creator_address
                 /\ resp'[p].status = 403
                      <=> \E r \in found : ~r.is_active
                 /\ resp'[p].status = 404 <=> found = {}
    ]_vars

C27_Witness ==
  \E p \in Procs : \E r \in rows :
    /\ pc[p] = "done" /\ req[p].kind = "content"
    /\ r.access_short_code = req[p].code
    /\ ~r.is_active
    /\ resp[p].status = 403

\* C28: a social request without force on a record with stored posts is
\* answered at once with exactly the stored posts and source "cache", with
\* no generator call and no write; every other 200 comes after the
\* generator was called for all five platforms (force was given or no posts
\* were stored), has source "generated" and carries the posts just stored.
C28_SocialSourceAnnotation ==
  [][\A p \in Procs :
       /\ ( /\ Starts(p) /\ req'[p].kind = "social" /\ req'[p].force # "true"
            /\ "store_error" \notin calls'[p]
            /\ \E r \in rows : /\ r.buy_short_code = req'[p].code
                                /\ r.ai_social_posts # NullPosts )
          => /\ pc'[p] = "done" /\ resp'[p].status = 200
             /\ resp'[p].source = "cache"
             /\ \E r \in rows : /\ r.buy_short_code = req'[p].code
                                 /\ resp'[p].socialPosts = r.ai_social_posts
             /\ calls'[p] = {"store_read"}
             /\ rows' = rows
       /\ ( /\ Replies(p) /\ req'[p].kind = "social"
            /\ resp'[p].status = 200
            /\ ~( /\ Starts(p) /\ req'[p].force # "true"
                  /\ \E r \in rows : /\ r.buy_short_code = req'[p].code
                                      /\ r.ai_social_posts # NullPosts ) )
          => /\ pc[p] = "social_store"
             /\ resp'[p].source = "generated"
             /\ \/ req[p].force = "true"
                \/ loc[p].link.ai_social_posts = NullPosts
             /\ {"generator", "store_write"} \subseteq calls'[p]
             /\ \A pl \in Platforms : loc[p].settled[pl] # "pending"
             /\ \E r \in rows' : /\ r.buy_short_code = req[p].code
                                  /\ r.ai_social_posts = resp'[p].socialPosts
    ]_vars

C28_Witness ==
  \E p \in Procs : \E r \in rows :
    /\ pc[p] = "done" /\ req[p].kind = "social" /\ req[p].force # "true"
    /\ resp[p].status = 200 /\ resp[p].source = "cache"
    /\ r.buy_short_code = req[p].code
    /\ r.ai_social_posts # NullPosts
    /\ resp[p].socialPosts = r.ai_social_posts
    /\ calls[p] = {"store_read"}

\* C29 (as claimed): the ledger's confirmation of a creation creates the
\* link active and hands the handler the transaction's hash; and when the
\* creation answers 201 the store holds exactly one record for the hash of
\* the url, active, the ledger link is active, and the record's tx_hash is
\* the non-null hash of that receipt, the one the response reports.
C29_CreatedRecordMatchesLedger ==
  [][\A p \in Procs :
       /\ ( pc[p] = "create_ledger" /\ pc'[p] = "create_store" )
          => /\ chain'[generateLinkHash(req[p].url)].exists
             /\ ~chain[generateLinkHash(req[p].url)].exists
                  => chain'[generateLinkHash(req[p].url)] =
                       [exists |-> TRUE, isActive |-> TRUE,
                        creator |-> req[p].creator,
                        priceInERC20 |-> req[p].price]
             /\ loc'[p].txHash = nextTx
             /\ loc'[p].txHash # NoTx
       /\ ( Answers(p) /\ req[p].kind = "create" /\ resp'[p].status = 201 )
          => LET h == generateLinkHash(req[p].url)
             IN  /\ Cardinality({r \in rows' : r.link_hash = h}) = 1
                 /\ \A r \in rows' :
                      r.link_hash = h
                        => /\ r.is_active
                           /\ r.tx_hash = loc[p].txHash
                           /\ r.tx_hash = resp'[p].transactionHash
                           /\ r.tx_hash # NoTx
                 /\ resp'[p].linkId = h
                 /\ chain'[h].exists /\ chain'[h].isActive
                 /\ "ledger_ok" \in calls[p]
    ]_vars

\* C30: in every state, every stored record has ledger backing: the
\* ledger holds a link for its link_hash; and every creation that has
\* written the store holds the receipt of its confirmed createLink for a
\* link the ledger holds.
C30_StoredRecordHasLedgerBacking ==
  /\ \A r \in rows : /\ r.link_hash \in Hashes
                      /\ chain[r.link_hash].exists
  /\ \A p \in Procs :
       (req[p].kind = "create" /\ "store_write" \in calls[p])
         => /\ "ledger_ok" \in calls[p]
            /\ chain[generateLinkHash(req[p].url)].exists

C30_Witness ==
  \E p \in Procs : \E r \in rows :
    /\ pc[p] = "done" /\ req[p].kind = "create"
    /\ resp[p].error = "Smart contract interaction failed"
    /\ chain[r.link_hash].exists
    /\ \A h \in Hashes : ~chain[h].exists => getLinkByHash(h) = {}
    /\ \E h \in Hashes : ~chain[h].exists

\* A record without the two columns updateLinkStatus sets.
StatusFrame(r) == [r EXCEPT !.is_active = TRUE, !.status_update_tx_hash = NoTx]

\* C31: the step in which a status transition answers 200 changes nothing
\* but is_active and status_update_tx_hash of the record with the given
\* link_hash: its other fields, the other records and the number of records
\* are as before.
C31_SetActivityFrame ==
  [][\A p \in Procs :
       ( Answers(p) /\ req[p].kind = "status" /\ resp'[p].status = 200 )
         => /\ {StatusFrame(r) : r \in rows'} = {StatusFrame(r) : r \in rows}
            /\ {r \in rows' : r.link_hash # req[p].hash}
                 = {r \in rows : r.link_hash # req[p].hash}
            /\ Cardinality(rows') = Cardinality(rows)
    ]_vars

C31_Witness ==
  \E p \in Procs : \E r \in rows :
    /\ pc[p] = "done" /\ req[p].kind = "status" /\ resp[p].status = 200
    /\ "store_write" \in calls[p]
    /\ r.link_hash = req[p].hash
    /\ ~r.is_active
    /\ r.status_update_tx_hash = resp[p].transactionHash
    /\ r.title = "T0" /\ r.description = "D0"

\* C32 (as claimed): when the replace of a metadata refresh commits and
\* the request answers 200, the record is stored with a non-null title, so
\* that the test for the cached answer holds for it; a non-null title never
\* goes back to null; hence no state has a finished, stored refresh next to
\* a record whose title is still null.
C32_RefreshSetsTitleSentinel ==
  /\ [][\A p \in Procs :
          ( pc[p] = "meta_insert" /\ pc'[p] = "done" /\ resp'[p].status = 200 )
            => /\ \E r \in rows' : r.link_hash = loc[p].link.link_hash
               /\ \A r \in rows' :
                    r.link_hash = loc[p].link.link_hash
                      => /\ r.title # NULL
                         /\ r.title = resp'[p].title
                         /\ ServeCached(UNDEF, r)
     ]_vars
  /\ [][\A r \in rows : \A n \in rows' :
          ( n.link_hash = r.link_hash /\ r.title # NULL ) => n.title # NULL
     ]_vars
  /\ [](\A p \in Procs :
         ( /\ Finished(p, "metadata") /\ resp[p].status = 200
           /\ "store_write" \in calls[p] )
           => \A r \in getLinkByHash(resp[p].linkId) : r.title # NULL)

\* The platforms whose generation call of slot p has not settled yet.
Pending(p) == {pl \in Platforms : loc[p].settled[pl] = "pending"}

\* C33: while a generation call of a social request is pending the request
\* has no response and has written nothing, and its step out of the wait is
\* taken with all five calls settled and aggregates exactly their results;
\* a call that settles changes the result of its own platform only, and
\* nothing else of any request or of the store.
C33_AggregatesAfterAllSettled ==
  /\ [](\A p \in Procs :
         ( pc[p] = "social_generate" /\ Pending(p) # {} )
           => /\ "store_write" \notin calls[p]
              /\ loc[p].generatedPosts = NullPosts)
  /\ [][\A p \in Procs :
          /\ ( pc[p] = "social_generate" /\ pc'[p] # "social_generate" )
             => /\ Pending(p) = {}
                /\ pc'[p] = "social_store"
                     => /\ loc'[p].settled = loc[p].settled
                        /\ Keys(loc'[p].generatedPosts) = Fulfilled(loc[p].settled)
                /\ pc'[p] = "done"
                     => /\ Fulfilled(loc[p].settled) = {}
                        /\ loc'[p] = NoLoc
          /\ ( /\ pc[p] = "social_generate" /\ pc'[p] = "social_generate"
               /\ loc'[p] # loc[p] )
             => /\ \E pl \in Pending(p) :
                     /\ loc'[p] = [loc[p] EXCEPT !.settled[pl] = loc'[p].settled[pl]]
                     /\ loc'[p].settled[pl] # "pending"
                /\ \A q \in Procs \ {p} : loc'[q] = loc[q]
                /\ UNCHANGED <<rows, lock, chain, nextTx, started, pc, req, resp, calls>>
     ]_vars

C33_Witness ==
  \E p \in Procs :
    /\ pc[p] = "social_generate"
    /\ Pending(p) = {"Discord"}
    /\ loc[p].settled["X"] = "rejected"
    /\ loc[p].settled["Telegram"] = "posts"
    /\ "store_write" \notin calls[p]

\* C34 (as claimed): when every generation call was rejected or fulfilled
\* with no content, the request answers "Failed to generate any social
\* posts from AI." and writes nothing; and no record is ever stored with
\* ai_social_posts in which every platform's list is empty.
C34_NoContentIsFailure ==
  /\ [][\A p \in Procs :
          ( /\ pc[p] = "social_generate" /\ pc'[p] # "social_generate"
            /\ \A pl \in Platforms : loc[p].settled[pl] \in {"rejected", "empty"} )
            => /\ pc'[p] = "done"
               /\ resp'[p].error = "Failed to generate any social posts from AI."
     ]_vars
  /\ [](\A r \in rows :
         r.ai_social_posts # NullPosts
           => \E pl \in Platforms : r.ai_social_posts[pl] = "posts")

\* A record as stored by a creation that supplied title and description
\* (no producer returns these values).
AsCreatedWithTitle(r) == r.title = "T0" /\ r.description = "D0"

\* C35: a metadata request without force for a record created with a title
\* is answered at once with the record as created, after the store read
\* alone (no producer, no write); and the title and description given at
\* creation change only in the commit of a replace whose request had
\* force=true.
C35_SuppliedTitleCountsAsEnriched ==
  [][/\ \A p \in Procs :
          \A link \in {r \in rows : r.buy_short_code = req'[p].code} :
            ( /\ Starts(p) /\ req'[p].kind = "metadata" /\ req'[p].force # "true"
              /\ AsCreatedWithTitle(link)
              /\ "store_error" \notin calls'[p] )
            => /\ pc'[p] = "done" /\ resp'[p].status = 200
               /\ resp'[p].title = "T0" /\ resp'[p].description = "D0"
               /\ calls'[p] = {"store_read"}
               /\ rows' = rows
     /\ \A r \in rows :
          ( /\ AsCreatedWithTitle(r)
            /\ ~\E n \in rows' : n.link_hash = r.link_hash /\ AsCreatedWithTitle(n) )
          => \E p \in Procs : /\ pc[p] = "meta_insert" /\ pc'[p] = "done"
                               /\ req[p].force = "true"
                               /\ loc[p].link.link_hash = r.link_hash
    ]_vars

C35_Witness ==
  \E p \in Procs : \E r \in rows :
    /\ Finished(p, "metadata") /\ req[p].force # "true"
    /\ resp[p].status = 200 /\ calls[p] = {"store_read"}
    /\ r.buy_short_code = req[p].code
    /\ AsCreatedWithTitle(r)
    /\ resp[p].title = "T0" /\ resp[p].description = "D0"

\* C36 (as claimed): once a metadata refresh and a social-copy generation
\* on the same link have both answered with success, the stored record has
\* the title and description the refresh returned and the aiSocialPosts the
\* generation returned; and the commit of a refresh leaves the stored
\* aiSocialPosts of the record as they were.
C36_RefreshAndGenerationKeepBothWrites ==
  /\ [](\A m \in Procs, s \in Procs :
         ( /\ pc[m] = "done" /\ pc[s] = "done"
           /\ req[m].kind = "metadata" /\ resp[m].status = 200
           /\ "store_write" \in calls[m]
           /\ req[s].kind = "social" /\ resp[s].status = 200
           /\ resp[s].source = "generated"
           /\ resp[m].linkId = resp[s].linkId )
           => \A r \in getLinkByHash(resp[m].linkId) :
                /\ r.ai_social_posts = resp[s].socialPosts
                /\ r.title = resp[m].title
                /\ r.description = resp[m].description)
  /\ [][\A p \in Procs :
          (pc[p] = "meta_insert" /\ pc'[p] = "done" /\ resp'[p].status = 200)
            => \A r \in rows, r2 \in rows' :
                 r.link_hash = r2.link_hash
                   => r2.ai_social_posts = r.ai_social_posts
     ]_vars

\* C37 (as claimed): once a status transition to inactive has answered 200,
\* and as long as the ledger has confirmed no later activation and no other
\* status transition of the link is on record, the stored record of the
\* link is one that the test of GET /content and GET /buy refuses as
\* inactive, whatever refresh or generation runs meanwhile.
C37_DeactivationSticksForReaders ==
  \A p \in Procs :
    ( /\ Finished(p, "status") /\ req[p].isActive = "false"
      /\ resp[p].status = 200
      /\ ~chain[req[p].hash].isActive
      /\ \A q \in Procs \ {p} : ~(req[q].kind = "status" /\ req[q].hash = req[p].hash) )
    => \A r \in getLinkByHash(req[p].hash) : Inactive(r)

\* C38 (as claimed): for every stored record, the ledger's price of the
\* record's linkHash is the stored price and the ledger's creator is the
\* stored creatorAddress up to case, also after a creation was submitted
\* again for the same URL with another price or creator.
C38_LedgerAndStoreAgreeOnPriceAndCreator ==
  \A r \in rows :
    /\ chain[r.link_hash].exists
    /\ chain[r.link_hash].priceInERC20 = r.price_in_erc20
    /\ toLowerCase(chain[r.link_hash].creator) = toLowerCase(r.creator_address)

\* Records a producer can hand to the handler, one without title and one
\* without description among them.
ExtractedInputs ==
  {[title |-> t, description |-> d] :
     t \in {"T_page", "", UNDEF},
     d \in {"D_page", "Could not fetch details", NULL, UNDEF}}

\* C39: the record a refresh writes has the producer's title when that is
\* non-empty and the title of the record read otherwise, and the producer's
\* description, null when the producer gave none, whatever was stored
\* before; the commit of a refresh stores exactly that record, so that a
\* forced refresh whose fetch failed leaves the placeholder title and
\* "Could not fetch details" in place of the title and description stored
\* before.
C39_RefreshMergeRule ==
  /\ [](\A r \in rows, e \in ExtractedInputs :
          /\ UpdatedLinkData(r, e).title =
               (IF e.title \in {"", UNDEF} THEN r.title ELSE e.title)
          /\ UpdatedLinkData(r, e).description =
               (IF e.description \in {NULL, UNDEF} THEN NULL ELSE e.description))
  /\ [][\A p \in Procs :
          (pc[p] = "meta_insert" /\ pc'[p] = "done" /\ resp'[p].status = 200)
            => /\ {r \in rows' : r.link_hash = loc[p].link.link_hash} # {}
               /\ \A r \in {x \in rows' : x.link_hash = loc[p].link.link_hash} :
                    /\ r.title =
                         (IF loc[p].extracted.title \in {"", UNDEF}
                            THEN loc[p].link.title
                            ELSE loc[p].extracted.title)
                    /\ r.description = loc[p].extracted.description
                    /\ resp'[p].title = r.title
                    /\ resp'[p].description = r.description
                    /\ loc[p].extracted.description = "Could not fetch details"
                         => r.title \in PlaceholderTitles
     ]_vars

\* C39 witness: a record created with title T0 and description D0 holds,
\* after a forced refresh whose fetch failed, the placeholder title and
\* "Could not fetch details".
C39_Witness ==
  \E q \in Procs, p \in Procs :
    /\ Finished(q, "create") /\ resp[q].status = 201 /\ req[q].title = "T0"
    /\ Finished(p, "metadata") /\ req[p].force = "true" /\ resp[p].status = 200
    /\ resp[p].linkId = resp[q].linkId
    /\ resp[p].description = "Could not fetch details"
    /\ \E r \in rows :
         /\ r.link_hash = resp[p].linkId
         /\ r.title \in PlaceholderTitles
         /\ r.description = "Could not fetch details"

====
